---- MODULE Spec2Model ----
(***************************************************************************)
(* Model of app.py, the Streamlit "Python Documentation Generator".        *)
(*                                                                         *)
(* Texts (model responses, filenames) are sequences of one-character      *)
(* strings.  A key word of the documentation schema ("tableName", ...) is  *)
(* written as a single symbol standing for its letters; such a symbol is   *)
(* legal only inside a JSON string, as its letters are in the real text.   *)
(* Python values are tagged records [t |-> tag, v |-> payload].            *)
(***************************************************************************)
EXTENDS Integers, Sequences, FiniteSets, TLC

(***************************************************************************)
(* Bounds of the model.                                                    *)
(***************************************************************************)
MaxText == 3        \* longest response text enumerated symbol by symbol
MaxItems == 2       \* most entries in each list of a generated report

(***************************************************************************)
(* Python values.                                                          *)
(***************************************************************************)
None == [t |-> "null", v |-> <<>>]
PyStr(cs) == [t |-> "str", v |-> cs]
PyNum(ds) == [t |-> "num", v |-> ds]
PyList(xs) == [t |-> "arr", v |-> xs]
PyDict(kvs) == [t |-> "obj", v |-> kvs]

\* bool(x) as used by `if x` / `and x`
Truthy(x) ==
  CASE x.t = "null" -> FALSE
    [] x.t = "num" -> x.v # <<"0">>
    [] OTHER -> Len(x.v) > 0

(***************************************************************************)
(* json.loads, restricted to texts over JsonChars \cup KeyWords.           *)
(***************************************************************************)
Whitespace == {" "}
Digits == {"0", "1"}
KeyWords == {"description", "tableGrain", "dataSources", "databricksTables",
             "tableMetadata", "integratedRules", "tableName", "columns",
             "columnName", "dataType", "sampleValues", "sourceTable",
             "sourceColumn", "x"}
JsonChars == {"{", "}", "[", "]", ",", ":", "\"", "n", "u", "l"} \cup Whitespace \cup Digits

ParseFail == [ok |-> FALSE, val |-> None, end |-> 0]
ParseOk(x, e) == [ok |-> TRUE, val |-> x, end |-> e]

\* WHITESPACE.match(s, i).end()
RECURSIVE SkipWs(_, _)
SkipWs(s, i) ==
  IF i <= Len(s) /\ s[i] \in Whitespace THEN SkipWs(s, i + 1) ELSE i

\* py_scanstring: i is the index after the opening quote
RECURSIVE ScanString(_, _, _)
ScanString(s, i, acc) ==
  IF i > Len(s) THEN ParseFail
  ELSE IF s[i] = "\"" THEN ParseOk(acc, i + 1)
  ELSE ScanString(s, i + 1, Append(acc, s[i]))

\* NUMBER_RE: (0|[1-9][0-9]*) ; fractions, exponents and signs need
\* characters outside JsonChars
RECURSIVE ScanDigits(_, _)
ScanDigits(s, i) ==
  IF i <= Len(s) /\ s[i] \in Digits THEN ScanDigits(s, i + 1) ELSE i

ScanNumber(s, i) ==
  IF s[i] = "0" THEN ParseOk(PyNum(<<"0">>), i + 1)
  ELSE IF s[i] \in Digits
       THEN LET e == ScanDigits(s, i + 1)
            IN ParseOk(PyNum(SubSeq(s, i, e - 1)), e)
       ELSE ParseFail

\* dict(pairs) insertion: a repeated key keeps its place and takes the
\* last value
RECURSIVE DictSet(_, _, _)
DictSet(kvs, k, x) ==
  IF kvs = <<>> THEN << <<k, x>> >>
  ELSE IF Head(kvs)[1] = k THEN << <<k, x>> >> \o Tail(kvs)
  ELSE <<Head(kvs)>> \o DictSet(Tail(kvs), k, x)

RECURSIVE scan_once(_, _)
RECURSIVE JSONArrayItems(_, _, _)
RECURSIVE JSONObjectMembers(_, _, _)

\* JSONArray: i is the index after "["
JSONArray(s, i) ==
  LET j == SkipWs(s, i)
  IN IF j <= Len(s) /\ s[j] = "]" THEN ParseOk(PyList(<<>>), j + 1)
     ELSE JSONArrayItems(s, j, <<>>)

JSONArrayItems(s, i, acc) ==
  LET r == scan_once(s, i)
  IN IF ~r.ok THEN ParseFail
     ELSE LET j == SkipWs(s, r.end)
              xs == Append(acc, r.val)
          IN IF j > Len(s) THEN ParseFail
             ELSE IF s[j] = "]" THEN ParseOk(PyList(xs), j + 1)
             ELSE IF s[j] # "," THEN ParseFail
             ELSE JSONArrayItems(s, SkipWs(s, j + 1), xs)

\* JSONObject: i is the index after "{"
JSONObject(s, i) ==
  LET j == SkipWs(s, i)
  IN IF j > Len(s) THEN ParseFail
     ELSE IF s[j] = "}" THEN ParseOk(PyDict(<<>>), j + 1)
     ELSE IF s[j] # "\"" THEN ParseFail
     ELSE JSONObjectMembers(s, j + 1, <<>>)

\* i is the index after the opening quote of the next key
JSONObjectMembers(s, i, acc) ==
  LET k == ScanString(s, i, <<>>)
  IN IF ~k.ok THEN ParseFail
     ELSE LET c == SkipWs(s, k.end)
          IN IF c > Len(s) \/ s[c] # ":" THEN ParseFail
             ELSE LET r == scan_once(s, SkipWs(s, c + 1))
                  IN IF ~r.ok THEN ParseFail
                     ELSE LET j == SkipWs(s, r.end)
                              kvs == DictSet(acc, k.val, r.val)
                          IN IF j > Len(s) THEN ParseFail
                             ELSE IF s[j] = "}" THEN ParseOk(PyDict(kvs), j + 1)
                             ELSE IF s[j] # "," THEN ParseFail
                             ELSE LET q == SkipWs(s, j + 1)
                                  IN IF q > Len(s) \/ s[q] # "\"" THEN ParseFail
                                     ELSE JSONObjectMembers(s, q + 1, kvs)

scan_once(s, i) ==
  IF i > Len(s) THEN ParseFail
  ELSE CASE s[i] = "\"" ->
              LET r == ScanString(s, i + 1, <<>>)
              IN IF r.ok THEN ParseOk(PyStr(r.val), r.end) ELSE ParseFail
         [] s[i] = "{" -> JSONObject(s, i + 1)
         [] s[i] = "[" -> JSONArray(s, i + 1)
         [] s[i] = "n" /\ i + 3 <= Len(s) /\ SubSeq(s, i, i + 3) = <<"n", "u", "l", "l">> ->
              ParseOk(None, i + 4)
         [] OTHER -> ScanNumber(s, i)

\* json.loads(s): ok = FALSE stands for raising json.JSONDecodeError
json_loads(s) ==
  LET r == scan_once(s, SkipWs(s, 1))
  IN IF ~r.ok THEN ParseFail
     ELSE IF SkipWs(s, r.end) # Len(s) + 1 THEN ParseFail
     ELSE ParseOk(r.val, Len(s) + 1)

(***************************************************************************)
(* str(x) and repr(x), as used by the f-strings of build_docx.             *)
(***************************************************************************)
RECURSIVE JoinSeqs(_, _)
JoinSeqs(parts, sep) ==
  IF parts = <<>> THEN <<>>
  ELSE IF Len(parts) = 1 THEN parts[1]
  ELSE parts[1] \o sep \o JoinSeqs(Tail(parts), sep)

RECURSIVE PyRepr(_)
PyRepr(x) ==
  CASE x.t = "null" -> <<"None">>
    [] x.t = "num" -> x.v
    [] x.t = "str" -> <<"'">> \o x.v \o <<"'">>
    [] x.t = "arr" ->
         <<"[">> \o JoinSeqs([i \in 1..Len(x.v) |-> PyRepr(x.v[i])], <<",", " ">>) \o <<"]">>
    [] OTHER ->
         <<"{">> \o JoinSeqs([i \in 1..Len(x.v) |->
                      PyRepr(PyStr(x.v[i][1])) \o <<":", " ">> \o PyRepr(x.v[i][2])],
                    <<",", " ">>) \o <<"}">>

PyFormat(x) == IF x.t = "str" THEN x.v ELSE PyRepr(x)

(***************************************************************************)
(* dict and iteration primitives used by build_docx.  A result with        *)
(* ok = FALSE stands for a raised exception (KeyError, TypeError,          *)
(* AttributeError).                                                        *)
(***************************************************************************)
Key(w) == <<w>>

RECURSIVE DictHas(_, _)
DictHas(kvs, k) ==
  IF kvs = <<>> THEN FALSE
  ELSE IF Head(kvs)[1] = k THEN TRUE ELSE DictHas(Tail(kvs), k)

RECURSIVE DictAt(_, _)
DictAt(kvs, k) ==
  IF Head(kvs)[1] = k THEN Head(kvs)[2] ELSE DictAt(Tail(kvs), k)

\* d.get(k, default), d a dict
DictGet(d, k, default) == IF DictHas(d.v, k) THEN DictAt(d.v, k) ELSE default

\* d[k]: KeyError when k is missing, TypeError when d is not a dict
DictIndex(d, k) ==
  IF d.t = "obj" /\ DictHas(d.v, k) THEN [ok |-> TRUE, val |-> DictAt(d.v, k)]
  ELSE [ok |-> FALSE, val |-> None]

\* for e in x: the items of a list, the characters of a str, the keys of
\* a dict; TypeError for None and numbers
PyIter(x) ==
  CASE x.t = "arr" -> [ok |-> TRUE, items |-> x.v]
    [] x.t = "str" -> [ok |-> TRUE, items |-> [i \in 1..Len(x.v) |-> PyStr(<<x.v[i]>>)]]
    [] x.t = "obj" -> [ok |-> TRUE, items |-> [i \in 1..Len(x.v) |-> PyStr(x.v[i][1])]]
    [] OTHER -> [ok |-> FALSE, items |-> <<>>]

(***************************************************************************)
(* The document built by build_docx: a sequence of block elements.         *)
(***************************************************************************)
Paragraph(text) == [kind |-> "para", text |-> text, rows |-> <<>>]
Heading(text, level) ==
  [kind |-> IF level = 0 THEN "title" ELSE IF level = 1 THEN "h1" ELSE "h2",
   text |-> text, rows |-> <<>>]
Table(rows) == [kind |-> "table", text |-> <<>>, rows |-> rows]

Raised == [ok |-> FALSE, doc |-> <<>>]
Built(els) == [ok |-> TRUE, doc |-> els]

RECURSIVE Flatten(_)
Flatten(parts) == IF parts = <<>> THEN <<>> ELSE Head(parts) \o Flatten(Tail(parts))

\* the blocks of a loop body run over items, or Raised if a pass raises
Gather(results) ==
  IF \A i \in 1..Len(results) : results[i].ok
  THEN Built(Flatten([i \in 1..Len(results) |-> results[i].doc]))
  ELSE Raised

\* doc.add_paragraph(text): python-docx adds no run for a falsy text and
\* rejects a text that is not a str
AddParagraph(text) ==
  IF text.t = "str" THEN Built(<<Paragraph(text.v)>>)
  ELSE IF ~Truthy(text) THEN Built(<<Paragraph(<<>>)>>)
  ELSE Raised

HeaderRow == << <<"Column Name">>, <<"Data Type">>, <<"Description">>,
                <<"Sample Values">>, <<"Source Table">>, <<"Source Column">> >>
ColumnKeys == <<"columnName", "dataType", "description", "sampleValues",
                "sourceTable", "sourceColumn">>

\* one pass of `for col in tbl.get("columns", [])`: the row, or a raise
ColumnRow(col) ==
  LET cells == [i \in 1..6 |-> DictIndex(col, Key(ColumnKeys[i]))]
  IN IF \A i \in 1..6 : cells[i].ok /\ cells[i].val.t = "str"
     THEN [ok |-> TRUE, row |-> [i \in 1..6 |-> cells[i].val.v]]
     ELSE [ok |-> FALSE, row |-> <<>>]

\* variant: the row loop stops after the first column
MetadataBlock_OneRow(tbl) ==
  LET name == DictIndex(tbl, Key("tableName"))
  IN IF ~name.ok THEN Raised
     ELSE LET cols == PyIter(DictGet(tbl, Key("columns"), PyList(<<>>)))
              rows == [i \in 1..Len(cols.items) |-> ColumnRow(cols.items[i])]
          IN IF ~cols.ok \/ \E i \in 1..Len(rows) : ~rows[i].ok THEN Raised
             ELSE Built(<<Heading(<<"Table: ">> \o PyFormat(name.val), 2),
                          Table(<<HeaderRow>> \o
                                [i \in 1..(IF Len(rows) > 0 THEN 1 ELSE 0) |-> rows[i].row]),
                          Paragraph(<<>>)>>)

\* one pass of `for tbl in doc_data.get("tableMetadata", [])`
MetadataBlock(tbl) ==
  LET name == DictIndex(tbl, Key("tableName"))
  IN IF ~name.ok THEN Raised
     ELSE LET cols == PyIter(DictGet(tbl, Key("columns"), PyList(<<>>)))
              rows == [i \in 1..Len(cols.items) |-> ColumnRow(cols.items[i])]
          IN IF ~cols.ok \/ \E i \in 1..Len(rows) : ~rows[i].ok THEN Raised
             ELSE Built(<<Heading(<<"Table: ">> \o PyFormat(name.val), 2),
                          Table(<<HeaderRow>> \o [i \in 1..Len(rows) |-> rows[i].row]),
                          Paragraph(<<>>)>>)

\* one pass of `for t in doc_data.get("databricksTables", [])`
TableBullet(t) ==
  LET name == DictIndex(t, Key("tableName"))
      desc == DictIndex(t, Key("description"))
  IN IF name.ok /\ desc.ok
     THEN Built(<<Paragraph(<<"* ">> \o PyFormat(name.val) \o <<": ">> \o PyFormat(desc.val))>>)
     ELSE Raised

\* one pass of `for src in ...` / `for rule in ...`; "* " is the bullet
Bullet(x) == Built(<<Paragraph(<<"* ">> \o PyFormat(x))>>)

\* `for e in doc_data.get(key, []): body(e)`
BulletSection(doc_data, key) ==
  LET it == PyIter(DictGet(doc_data, Key(key), PyList(<<>>)))
  IN IF ~it.ok THEN Raised
     ELSE Gather([i \in 1..Len(it.items) |-> Bullet(it.items[i])])

TablesSection(doc_data) ==
  LET it == PyIter(DictGet(doc_data, Key("databricksTables"), PyList(<<>>)))
  IN IF ~it.ok THEN Raised
     ELSE Gather([i \in 1..Len(it.items) |-> TableBullet(it.items[i])])

MetadataSection(doc_data) ==
  LET it == PyIter(DictGet(doc_data, Key("tableMetadata"), PyList(<<>>)))
  IN IF ~it.ok THEN Raised
     ELSE Gather([i \in 1..Len(it.items) |-> MetadataBlock(it.items[i])])

build_docx(doc_data, filename) ==
  IF doc_data.t # "obj" THEN Raised
  ELSE Gather(<<
         Built(<<Heading(<<"Python Documentation Report">>, 0),
                 Paragraph(<<"Generated for: ">> \o PyFormat(filename))>>),
         Built(<<Heading(<<"1. Description">>, 1)>>),
         AddParagraph(DictGet(doc_data, Key("description"), PyStr(<<>>))),
         Built(<<Heading(<<"2. Table Grain">>, 1)>>),
         AddParagraph(DictGet(doc_data, Key("tableGrain"), PyStr(<<>>))),
         Built(<<Heading(<<"3. Data Sources">>, 1)>>),
         BulletSection(doc_data, "dataSources"),
         Built(<<Heading(<<"4. Databricks Tables (Output)">>, 1)>>),
         TablesSection(doc_data),
         Built(<<Heading(<<"5. Table Metadata">>, 1)>>),
         MetadataSection(doc_data),
         Built(<<Heading(<<"6. Integrated Rules">>, 1)>>),
         BulletSection(doc_data, "integratedRules")
       >>)

(***************************************************************************)
(* str.replace(old, new): every non-overlapping occurrence, left to right. *)
(***************************************************************************)
StartsWith(s, p) == Len(p) <= Len(s) /\ SubSeq(s, 1, Len(p)) = p

RECURSIVE str_replace(_, _, _)
str_replace(s, old, new) ==
  IF s = <<>> THEN <<>>
  ELSE IF StartsWith(s, old)
       THEN new \o str_replace(SubSeq(s, Len(old) + 1, Len(s)), old, new)
       ELSE <<Head(s)>> \o str_replace(Tail(s), old, new)

DotPy == <<".", "p", "y">>
DocxSuffix == <<"_documentation.docx">>

\* file_name= of st.download_button
DownloadFileName(generated_filename) == str_replace(generated_filename, DotPy, DocxSuffix)

(***************************************************************************)
(* The Streamlit session.                                                  *)
(***************************************************************************)
VARIABLES
  uploaded_file,    \* st.file_uploader: None or the name of the file
  stream_response,  \* st.checkbox
  session_state,    \* st.session_state: a dict, keys added on first use
  pc,               \* "idle", or where the generate handler is suspended
  doc_string,       \* local of the generate handler
  sent,             \* text the completion service has produced for the request
  n_requests,       \* calls of client.chat.completions.create in this run
  outcome,          \* message shown by the last script run
  view,             \* branch of the display block taken by the last run
  docx_buffer,      \* data= of st.download_button
  file_name,        \* file_name= of st.download_button
  event,            \* the widget whose change started the last script run
  service           \* the completion service's side of the request

vars == <<uploaded_file, stream_response, session_state, pc, doc_string, sent,
          n_requests, outcome, view, docx_buffer, file_name, event, service>>

Q == "\""

\* symbols of the response texts that are enumerated exhaustively
TextChars == {"{", "}", "[", "]", "1"}

RECURSIVE SeqsUpTo(_, _)
SeqsUpTo(S, n) ==
  IF n = 0 THEN {<<>>}
  ELSE LET shorter == SeqsUpTo(S, n - 1)
       IN shorter \cup {Append(p, c) : p \in {q \in shorter : Len(q) = n - 1}, c \in S}

\* longer responses: a report, a report whose table entry lacks
\* "description", a trailing comma, a JSON null and a zero
SchemaTexts ==
  { <<"{", Q, "databricksTables", Q, ":", "[", "{", Q, "tableName", Q, ":", Q, "x", Q, ",",
      Q, "description", Q, ":", Q, "x", Q, "}", "]", "}">>,
    <<"{", Q, "databricksTables", Q, ":", "[", "{", Q, "tableName", Q, ":", Q, "x", Q, "}", "]", "}">>,
    <<"[", "1", ",", "]">>,
    <<"n", "u", "l", "l">>,
    <<"0">> }

Prefixes(t) == {SubSeq(t, 1, k) : k \in 0..Len(t)}

\* every text the service may turn out to have produced
ResponseTexts == SeqsUpTo(TextChars, MaxText) \cup UNION {Prefixes(t) : t \in SchemaTexts}

UploadNames == {<<"a", ".", "p", "y">>, <<"a", ".", "p", "y", ".", "p", "y">>}

NoSession == [k \in {} |-> None]

\* hasattr(st.session_state, 'generated_docs') and st.session_state.generated_docs,
\* then the else branch on uploaded_file
Render(ss, uf) ==
  IF "generated_docs" \in DOMAIN ss /\ Truthy(ss.generated_docs) THEN "report"
  ELSE IF Truthy(uf) THEN "prompt_generate"
  ELSE "prompt_upload"

\* a script run that reaches the display block without a button pressed
Rerun(ss, uf) ==
  /\ view' = Render(ss, uf)
  /\ outcome' = "none"
  /\ n_requests' = 0
  /\ doc_string' = <<>>
  /\ sent' = <<>>
  /\ docx_buffer' = Raised
  /\ file_name' = <<>>
  /\ service' = "none"

Init ==
  /\ uploaded_file = None
  /\ stream_response = FALSE
  /\ session_state = NoSession
  /\ pc = "idle"
  /\ doc_string = <<>>
  /\ sent = <<>>
  /\ n_requests = 0
  /\ outcome = "none"
  /\ view = "prompt_upload"
  /\ docx_buffer = Raised
  /\ file_name = <<>>
  /\ event = "none"
  /\ service = "none"

\* the user picks a file in the uploader
Upload ==
  /\ pc = "idle"
  /\ \E name \in UploadNames : uploaded_file' = PyStr(name)
  /\ Rerun(session_state, uploaded_file')
  /\ event' = "upload"
  /\ UNCHANGED <<stream_response, session_state, pc>>

\* the user removes the file from the uploader
RemoveUpload ==
  /\ pc = "idle"
  /\ uploaded_file # None
  /\ uploaded_file' = None
  /\ Rerun(session_state, None)
  /\ event' = "upload"
  /\ UNCHANGED <<stream_response, session_state, pc>>

ToggleStream ==
  /\ pc = "idle"
  /\ stream_response' = ~stream_response
  /\ Rerun(session_state, uploaded_file)
  /\ event' = "checkbox"
  /\ UNCHANGED <<uploaded_file, session_state, pc>>

\* variant: the stored report is dropped whenever a generation starts
InitSessionState_Reset(ss) ==
  [generated_docs |-> None, generated_filename |-> None]

\* if 'generated_docs' not in st.session_state: ...
InitSessionState(ss) ==
  IF "generated_docs" \notin DOMAIN ss
  THEN [generated_docs |-> None, generated_filename |-> None]
  ELSE ss

\* "Generate Documentation" pressed: up to the call of the service
ClickGenerate ==
  /\ pc = "idle"
  /\ Truthy(uploaded_file)
  /\ session_state' = InitSessionState(session_state)
  /\ n_requests' = 1
  /\ pc' = IF stream_response THEN "streaming" ELSE "waiting"
  /\ doc_string' = <<>>
  /\ sent' = <<>>
  /\ outcome' = "none"
  /\ docx_buffer' = Raised
  /\ file_name' = <<>>
  /\ event' = "generate"
  /\ service' = "open"
  /\ UNCHANGED <<uploaded_file, stream_response, view>>

\* variant: a failed request is issued a second time
TransportError_Retry ==
  /\ pc \in {"waiting", "streaming"}
  /\ IF n_requests = 1
     THEN /\ n_requests' = 2
          /\ UNCHANGED <<pc, outcome, view, service>>
     ELSE /\ pc' = "idle"
          /\ outcome' = "error"
          /\ view' = Render(session_state, uploaded_file)
          /\ service' = "failed"
          /\ UNCHANGED n_requests
  /\ UNCHANGED <<uploaded_file, stream_response, session_state, doc_string, sent,
                 docx_buffer, file_name, event>>

\* variant: what was received before the failure is parsed and stored
TransportError_KeepsPartial ==
  /\ pc \in {"waiting", "streaming"}
  /\ pc' = "idle"
  /\ outcome' = "error"
  /\ session_state' = IF json_loads(doc_string).ok
                       THEN [generated_docs |-> json_loads(doc_string).val,
                             generated_filename |-> uploaded_file]
                       ELSE session_state
  /\ view' = Render(session_state', uploaded_file)
  /\ service' = "failed"
  /\ UNCHANGED <<uploaded_file, stream_response, doc_string, sent,
                 n_requests, docx_buffer, file_name, event>>

\* except Exception: the call or the stream raised
TransportError ==
  /\ pc \in {"waiting", "streaming"}
  /\ pc' = "idle"
  /\ outcome' = "error"
  /\ view' = Render(session_state, uploaded_file)
  /\ service' = "failed"
  /\ UNCHANGED <<uploaded_file, stream_response, session_state, doc_string, sent,
                 n_requests, docx_buffer, file_name, event>>

\* the chunks a stream can carry: no choices, a delta without content, a
\* delta with a (possibly empty) text
Chunks(so_far) ==
  {[choices |-> <<>>], [choices |-> <<None>>]} \cup
  {[choices |-> <<PyStr(SubSeq(t, Len(so_far) + 1, Len(t)))>>] :
     t \in {u \in ResponseTexts : StartsWith(u, so_far)}}

\* the text a chunk carries, on the side of the service
ChunkText(chunk) ==
  IF chunk.choices # <<>> /\ chunk.choices[1].t = "str" THEN chunk.choices[1].v ELSE <<>>

\* variant: `doc_string = delta` in place of `doc_string += delta`
Accumulate_Overwrite(ds, chunk) ==
  LET delta == IF Len(chunk.choices) > 0 THEN chunk.choices[1] ELSE PyStr(<<>>)
  IN IF Truthy(delta) THEN delta.v ELSE ds

\* delta = chunk.choices[0].delta.content if chunk.choices else ""
\* if delta: doc_string += delta
Accumulate(ds, chunk) ==
  LET delta == IF Len(chunk.choices) > 0 THEN chunk.choices[1] ELSE PyStr(<<>>)
  IN IF Truthy(delta) THEN ds \o delta.v ELSE ds

\* one pass of `for chunk in chunks`
StreamChunk ==
  /\ pc = "streaming"
  /\ \E chunk \in Chunks(sent) :
       /\ sent' = sent \o ChunkText(chunk)
       /\ doc_string' = Accumulate(doc_string, chunk)
  /\ UNCHANGED <<uploaded_file, stream_response, session_state, pc, n_requests,
                 outcome, view, docx_buffer, file_name, event, service>>

\* st.session_state.generated_docs = doc_json; ...generated_filename = name
StoreResult(ss, doc_json, name) ==
  [ss EXCEPT !.generated_docs = doc_json, !.generated_filename = name]

\* variant: a text that does not parse is taken for an empty report
ParseAndStore_Silent(ds) ==
  LET r == json_loads(ds)
  IN /\ session_state' = StoreResult(session_state,
                                     IF r.ok THEN r.val ELSE PyDict(<<>>), uploaded_file)
     /\ outcome' = "success"
     /\ view' = Render(session_state', uploaded_file)
     /\ pc' = "idle"

\* doc_json = json.loads(doc_string) and what follows it in the try block,
\* or the json.JSONDecodeError handler; then the display block
ParseAndStore(ds) ==
  LET r == json_loads(ds)
  IN /\ session_state' = IF r.ok THEN StoreResult(session_state, r.val, uploaded_file)
                         ELSE session_state
     /\ outcome' = IF r.ok THEN "success" ELSE "parse_failure"
     /\ view' = Render(session_state', uploaded_file)
     /\ pc' = "idle"

\* the stream is exhausted
StreamEnd ==
  /\ pc = "streaming"
  /\ ParseAndStore(doc_string)
  /\ service' = "complete"
  /\ UNCHANGED <<uploaded_file, stream_response, doc_string, sent, n_requests,
                 docx_buffer, file_name, event>>

\* the blocking call returns: doc_string = response.choices[0].message.content
Response ==
  /\ pc = "waiting"
  /\ \E text \in ResponseTexts :
       /\ sent' = text
       /\ doc_string' = text
       /\ ParseAndStore(text)
  /\ service' = "complete"
  /\ UNCHANGED <<uploaded_file, stream_response, n_requests, docx_buffer, file_name, event>>

\* the blocking call returns a message without content: json.loads(None)
\* raises TypeError, handled by except Exception
ResponseNoContent ==
  /\ pc = "waiting"
  /\ pc' = "idle"
  /\ outcome' = "error"
  /\ view' = Render(session_state, uploaded_file)
  /\ service' = "no_content"
  /\ UNCHANGED <<uploaded_file, stream_response, session_state, doc_string, sent,
                 n_requests, docx_buffer, file_name, event>>

\* "Download DOCX" pressed; the button exists only in the report view
ClickDownload ==
  /\ pc = "idle"
  /\ view = "report"
  /\ docx_buffer' = build_docx(session_state.generated_docs, session_state.generated_filename)
  /\ IF docx_buffer'.ok /\ session_state.generated_filename.t = "str"
     THEN /\ file_name' = DownloadFileName(session_state.generated_filename.v)
          /\ outcome' = "docx_ready"
     ELSE /\ file_name' = <<>>
          /\ outcome' = "docx_error"
  /\ view' = Render(session_state, uploaded_file)
  /\ n_requests' = 0
  /\ doc_string' = <<>>
  /\ sent' = <<>>
  /\ event' = "download"
  /\ service' = "none"
  /\ UNCHANGED <<uploaded_file, stream_response, session_state, pc>>

\* variant: only the report is dropped, the filename stays
ClearSession_DocsOnly(ss) ==
  [ss EXCEPT !.generated_docs = None]

\* generated_docs = None; generated_filename = None
ClearSession(ss) ==
  [ss EXCEPT !.generated_docs = None, !.generated_filename = None]

\* "Clear Generated Documentation" pressed, then st.rerun()
ClickClear ==
  /\ pc = "idle"
  /\ view = "report"
  /\ session_state' = ClearSession(session_state)
  /\ Rerun(session_state', uploaded_file)
  /\ event' = "clear"
  /\ UNCHANGED <<uploaded_file, stream_response, pc>>

Next ==
  \/ Upload
  \/ RemoveUpload
  \/ ToggleStream
  \/ ClickGenerate
  \/ TransportError
  \/ StreamChunk
  \/ StreamEnd
  \/ Response
  \/ ResponseNoContent
  \/ ClickDownload
  \/ ClickClear

Spec == Init /\ [][Next]_vars

TypeOK ==
  /\ pc \in {"idle", "waiting", "streaming"}
  /\ outcome \in {"none", "success", "parse_failure", "error", "docx_ready", "docx_error"}
  /\ view \in {"report", "prompt_generate", "prompt_upload"}
  /\ event \in {"none", "upload", "checkbox", "generate", "download", "clear"}
  /\ service \in {"none", "open", "complete", "failed", "no_content"}

(***************************************************************************)
(* Reports of the schema of DOCUMENTATION_TEMPLATE, and the download       *)
(* handler started on a session that holds one of them.                    *)
(***************************************************************************)
ItemSym == <<"a", "b", "c", "d">>

Text(word, i) == PyStr(<<word, ItemSym[i]>>)

ColumnObject(i) ==
  PyDict([k \in 1..6 |-> <<Key(ColumnKeys[k]), Text(ColumnKeys[k], i)>>])

MakeReport(nSrc, nTbl, cols, nRules) ==
  PyDict(<<
    <<Key("description"), PyStr(<<"x">>)>>,
    <<Key("tableGrain"), PyStr(<<"x", "x">>)>>,
    <<Key("dataSources"), PyList([i \in 1..nSrc |-> Text("dataSources", i)])>>,
    <<Key("databricksTables"),
      PyList([i \in 1..nTbl |->
        PyDict(<< <<Key("tableName"), Text("tableName", i)>>,
                  <<Key("description"), Text("description", i)>> >>)])>>,
    <<Key("tableMetadata"),
      PyList([i \in 1..Len(cols) |->
        PyDict(<< <<Key("tableName"), Text("tableName", i)>>,
                  <<Key("columns"), PyList([j \in 1..cols[i] |-> ColumnObject(j)])>> >>)])>>,
    <<Key("integratedRules"), PyList([i \in 1..nRules |-> Text("integratedRules", i)])>>
  >>)

Reports ==
  {MakeReport(nSrc, nTbl, cols, nRules) :
     nSrc \in 0..MaxItems, nTbl \in 0..MaxItems,
     cols \in SeqsUpTo(0..MaxItems, MaxItems), nRules \in 0..MaxItems}

InitDocx ==
  /\ uploaded_file = PyStr(<<"a", ".", "p", "y">>)
  /\ stream_response = FALSE
  /\ \E report \in Reports :
       session_state = [generated_docs |-> report, generated_filename |-> uploaded_file]
  /\ pc = "idle"
  /\ doc_string = <<>>
  /\ sent = <<>>
  /\ n_requests = 0
  /\ outcome = "none"
  /\ view = "report"
  /\ docx_buffer = Raised
  /\ file_name = <<>>
  /\ event = "checkbox"
  /\ service = "none"

NextDocx == ClickDownload

SpecDocx == InitDocx /\ [][NextDocx]_vars

(***************************************************************************)
(* Properties.                                                             *)
(***************************************************************************)
Docs(ss) == IF "generated_docs" \in DOMAIN ss THEN ss.generated_docs ELSE None
Filename(ss) == IF "generated_filename" \in DOMAIN ss THEN ss.generated_filename ELSE None
Held(ss) == <<Docs(ss), Filename(ss)>>
Empty == <<None, None>>

\* C1 as stated: once a generate action has begun, and after it has ended
\* in a transport error or a parse failure, the session holds no report and
\* no filename.
C1_GenerateEmptiesSession ==
  (event = "generate" /\ (pc # "idle" \/ outcome \in {"error", "parse_failure"}))
    => Held(session_state) = Empty

\* C1 amended: no step of a generate action other than a successful parse
\* changes the report and filename the session holds, and a successful
\* parse leaves exactly the new report and the uploaded file's name.
C1_FailureKeepsSuccessReplaces ==
  [][ /\ (event' = "generate" /\ (pc' # "idle" \/ outcome' \in {"error", "parse_failure"}))
          => Held(session_state') = Held(session_state)
      /\ outcome' = "success"
          => session_state' = [generated_docs |-> json_loads(sent').val,
                               generated_filename |-> uploaded_file]
    ]_vars

C1_Witness ==
  /\ event = "generate"
  /\ outcome \in {"error", "parse_failure"}
  /\ Truthy(Docs(session_state))

\* C2: when the text the service produced is not valid JSON, the generate
\* action ends in the parse-failure outcome (not the error outcome), shows
\* that text unchanged, leaves the held report and filename as they were,
\* and has issued one request.
C2_MalformedIsParseFailure ==
  [][ (service' = "complete" /\ ~json_loads(sent').ok)
        => /\ pc' = "idle"
           /\ outcome' = "parse_failure"
           /\ doc_string' = sent'
           /\ Held(session_state') = Held(session_state)
           /\ n_requests' = 1
    ]_vars

C2_Witness ==
  /\ service = "complete"
  /\ outcome = "parse_failure"
  /\ sent = <<"[", "1", ",", "]">>
  /\ stream_response

\* C3: while streaming and at its end doc_string is the text the service
\* produced, whatever the chunks were; the result of a completed request
\* is that of json.loads on that text, in both modes.
C3_StreamEqualsFullText ==
  /\ (pc = "streaming" \/ service = "complete") => doc_string = sent
  /\ service = "complete" =>
       IF json_loads(sent).ok
       THEN outcome = "success" /\ Docs(session_state) = json_loads(sent).val
       ELSE outcome = "parse_failure"

C3_Witness ==
  /\ service = "complete"
  /\ stream_response
  /\ outcome = "success"
  /\ Len(sent) >= 3

\* C4: after the clear action the session holds neither a report nor a
\* filename and the render shows a 'no report' prompt.
C4_ClearEmpties ==
  event = "clear" =>
    /\ Held(session_state) = Empty
    /\ view \in {"prompt_generate", "prompt_upload"}
    /\ outcome = "none"

C4_Witness == event = "clear" /\ pc = "idle" /\ Truthy(uploaded_file)

\* C8: a generate action has issued exactly one request, while it runs
\* and after it has ended; a transport failure and a parse failure end
\* the action with their message shown.
C8_OneRequestPerGenerate ==
  /\ event = "generate" => n_requests = 1
  /\ event # "generate" => n_requests = 0
  /\ service \in {"failed", "no_content"} => (pc = "idle" /\ outcome = "error")
  /\ (service = "complete" /\ ~json_loads(sent).ok) => (pc = "idle" /\ outcome = "parse_failure")

C8_Witness ==
  /\ service = "failed"
  /\ stream_response
  /\ Len(sent) > 0
  /\ n_requests = 1

\* C9: the session holds a report only together with a filename, and the
\* held pair changes only by being emptied or by becoming the parse result
\* of a completely received response and the name of the uploaded file;
\* in particular no step of a running or failed generation writes it.
C9_OnlyCompleteResults ==
  [][ /\ DOMAIN session_state' \in {{}, {"generated_docs", "generated_filename"}}
      /\ Filename(session_state') = None => Docs(session_state') = None
      /\ Held(session_state') # Held(session_state) =>
           \/ Held(session_state') = Empty
           \/ /\ service' = "complete"
              /\ json_loads(sent').ok
              /\ Truthy(uploaded_file)
              /\ Held(session_state') = <<json_loads(sent').val, uploaded_file>>
    ]_vars

C9_Witness ==
  /\ service = "failed"
  /\ stream_response
  /\ json_loads(doc_string).ok
  /\ Truthy(Docs(session_state))
  /\ Docs(session_state) # json_loads(doc_string).val

\* C10 as stated, for a response that is a JSON object: after a generate
\* action that ended with a successful parse, the render shows the report
\* view.
C10_SuccessShowsReport ==
  (outcome = "success" /\ Docs(session_state).t = "obj") => view = "report"

\* the values at the places the schema names have the schema's types
IsStr(x) == x.t = "str"
IsListOf(x, P(_)) == x.t = "arr" /\ \A i \in 1..Len(x.v) : P(x.v[i])
TypedWhere(d, k, P(_)) == DictHas(d.v, Key(k)) => P(DictAt(d.v, Key(k)))
IsListOfStr(x) == IsListOf(x, IsStr)
IsColumn(c) == c.t = "obj" /\ \A i \in 1..6 : TypedWhere(c, ColumnKeys[i], IsStr)
IsListOfColumn(x) == IsListOf(x, IsColumn)
IsTableEntry(e) ==
  e.t = "obj" /\ TypedWhere(e, "tableName", IsStr) /\ TypedWhere(e, "description", IsStr)
IsMetadataEntry(e) ==
  e.t = "obj" /\ TypedWhere(e, "tableName", IsStr) /\ TypedWhere(e, "columns", IsListOfColumn)
IsListOfTableEntry(x) == IsListOf(x, IsTableEntry)
IsListOfMetadataEntry(x) == IsListOf(x, IsMetadataEntry)
PresentKeysTyped(d) ==
  /\ d.t = "obj"
  /\ TypedWhere(d, "description", IsStr)
  /\ TypedWhere(d, "tableGrain", IsStr)
  /\ TypedWhere(d, "dataSources", IsListOfStr)
  /\ TypedWhere(d, "databricksTables", IsListOfTableEntry)
  /\ TypedWhere(d, "tableMetadata", IsListOfMetadataEntry)
  /\ TypedWhere(d, "integratedRules", IsListOfStr)

\* every key of the schema is there, at every level
HasKeys(e, ks) == \A k \in ks : DictHas(e.v, Key(k))
MatchesSchema(d) ==
  /\ PresentKeysTyped(d)
  /\ HasKeys(d, {"description", "tableGrain", "dataSources", "databricksTables",
                 "tableMetadata", "integratedRules"})
  /\ LET tables == DictAt(d.v, Key("databricksTables")).v
         meta == DictAt(d.v, Key("tableMetadata")).v
     IN /\ \A i \in 1..Len(tables) : HasKeys(tables[i], {"tableName", "description"})
        /\ \A i \in 1..Len(meta) :
             /\ HasKeys(meta[i], {"tableName", "columns"})
             /\ LET cols == DictAt(meta[i].v, Key("columns")).v
                IN \A j \in 1..Len(cols) :
                     HasKeys(cols[j], {ColumnKeys[k] : k \in 1..6})

\* C5 as stated: the download of a report whose values have the schema's
\* types, with whatever keys missing, ends with an artifact, not an error.
C5_MissingKeysTolerated ==
  (event = "download" /\ PresentKeysTyped(Docs(session_state)))
    => (docx_buffer.ok /\ outcome = "docx_ready")

\* C7 as stated: the download name is the uploaded name with only its
\* trailing ".py" replaced by "_documentation.docx".
C7_OnlySuffixReplaced ==
  (event = "download" /\ outcome = "docx_ready") =>
    LET name == Filename(session_state).v
    IN file_name = SubSeq(name, 1, Len(name) - 3) \o DocxSuffix

\* the blocks between the k-th level-1 heading and the next one
H1Positions(doc) == {i \in 1..Len(doc) : doc[i].kind = "h1"}
H1Position(doc, k) ==
  CHOOSE i \in H1Positions(doc) : Cardinality({j \in H1Positions(doc) : j <= i}) = k
SectionBody(doc, k) ==
  SubSeq(doc, H1Position(doc, k) + 1,
         IF k < Cardinality(H1Positions(doc)) THEN H1Position(doc, k + 1) - 1 ELSE Len(doc))
IsTable(e) == e.kind = "table"

SectionTitles ==
  << <<"1. Description">>, <<"2. Table Grain">>, <<"3. Data Sources">>,
     <<"4. Databricks Tables (Output)">>, <<"5. Table Metadata">>,
     <<"6. Integrated Rules">> >>

\* C6: for a report matching the schema the document has the six level-1
\* headings in the fixed order; the bodies of Data Sources, Databricks
\* Tables and Integrated Rules are one bulleted paragraph per entry, in
\* input order; Table Metadata has one table per entry, each of a header
\* row and one six-cell row per column, in input order.
C6_SectionsBulletsTables ==
  (event = "download" /\ MatchesSchema(Docs(session_state))) =>
    LET d == Docs(session_state).v
        doc == docx_buffer.doc
        srcs == DictAt(d, Key("dataSources")).v
        tables == DictAt(d, Key("databricksTables")).v
        meta == DictAt(d, Key("tableMetadata")).v
        rules == DictAt(d, Key("integratedRules")).v
        tbls == SelectSeq(SectionBody(doc, 5), IsTable)
    IN /\ docx_buffer.ok
       /\ Cardinality(H1Positions(doc)) = 6
       /\ \A k \in 1..6 : doc[H1Position(doc, k)].text = SectionTitles[k]
       /\ SectionBody(doc, 3) = [i \in 1..Len(srcs) |-> Paragraph(<<"* ">> \o srcs[i].v)]
       /\ SectionBody(doc, 4) =
            [i \in 1..Len(tables) |->
               Paragraph(<<"* ">> \o DictAt(tables[i].v, Key("tableName")).v \o <<": ">>
                         \o DictAt(tables[i].v, Key("description")).v)]
       /\ SectionBody(doc, 6) = [i \in 1..Len(rules) |-> Paragraph(<<"* ">> \o rules[i].v)]
       /\ Len(tbls) = Len(meta)
       /\ \A i \in 1..Len(meta) :
            LET cols == DictAt(meta[i].v, Key("columns")).v
                rows == tbls[i].rows
            IN /\ Len(rows) = 1 + Len(cols)
               /\ rows[1] = HeaderRow
               /\ \A j \in 1..Len(cols) :
                    rows[j + 1] = [k \in 1..6 |-> DictAt(cols[j].v, Key(ColumnKeys[k])).v]

C6_Witness ==
  /\ event = "download"
  /\ docx_buffer.ok
  /\ MatchesSchema(Docs(session_state))
  /\ LET meta == DictAt(Docs(session_state).v, Key("tableMetadata")).v
     IN /\ Len(meta) >= 2
        /\ Len(DictAt(meta[1].v, Key("columns")).v) >= 2
        /\ Len(DictAt(meta[2].v, Key("columns")).v) = 0
  /\ Len(DictAt(Docs(session_state).v, Key("dataSources")).v) >= 2

====
